---- MODULE Spec2Model ----
(***************************************************************************)
(* A model of the pg_service database layer:                               *)
(*   database/connector.py     PostgresDbConnector (__init__, connect)     *)
(*   database/sql_executer.py  SqlExecuter (_execute, fetch_one_row,       *)
(*                             fetch_all_rows, modify_rows,                *)
(*                             convert_result_to_namedtuple,               *)
(*                             fetch_all_server_side)                      *)
(* The psycopg2 driver is modelled at the interface the code uses:         *)
(* connect, connection.autocommit, the connection and cursor context       *)
(* managers, execute, fetchone, fetchall, fetchmany, rowcount,             *)
(* description.  Every driver call that can raise is given an outcome      *)
(* chosen nondeterministically.                                            *)
(***************************************************************************)
EXTENDS Naturals, Sequences, FiniteSets, TLC

VARIABLES
    environ,        \* os.environ restricted to the key ENV
    connector,      \* the last PostgresDbConnector constructed, or PyNone
    call,           \* how the caller made that constructor call
    db_connection,  \* the connection the caller holds, or PyNone
    sql_executer,   \* the SqlExecuter bound to db_connection, or PyNone
    raised,         \* the exception the last operation let reach the caller
    last,           \* what the last _execute call did and returned
    gen,            \* the generator object of fetch_all_server_side
    stream          \* what the generator's body has done on the connection

vars == <<environ, connector, call, db_connection, sql_executer, raised, last,
          gen, stream>>

-----------------------------------------------------------------------------
(* Bounds of the model.                                                    *)

\* Largest number of rows the statement of a streaming fetch produces.
MaxRows == 4

\* Largest number of rows the statement of an _execute call produces.
MaxFetchRows == 2

\* cursor.arraysize of the named cursor, scaled down from the 4000 of
\* sql_executer.py line 149 so that result sets below, equal to, a multiple
\* of and not a multiple of the batch size all fit under MaxRows.
ArraySize == 2

-----------------------------------------------------------------------------
(* Python values.                                                          *)

PyNone == [kind |-> "None"]
PyStr(s) == [kind |-> "str", s |-> s]
PyBool(b) == [kind |-> "bool", b |-> b]
PyTuple(items) == [kind |-> "tuple", items |-> items]
PyList(items) == [kind |-> "list", items |-> items]

\* str.format of one value: str(v).
PyFormat(v) ==
    IF v.kind = "str" THEN v.s
    ELSE IF v.kind = "bool" THEN (IF v.b THEN "True" ELSE "False")
    ELSE "None"

\* sub in s, for strings.
Contains(sub, s) ==
    \E i \in 1..(Len(s) + 1) :
        /\ i + Len(sub) - 1 <= Len(s)
        /\ SubSeq(s, i, i + Len(sub) - 1) = sub

\* No exception reached the caller.
NoError == "none"

-----------------------------------------------------------------------------
(* database/connector.py                                                   *)

\* The process environments considered: ENV unset, set to a label, set to
\* the empty string.
Environs == {<<>>} \cup {[k \in {"ENV"} |-> v] : v \in {"dev", "prod", ""}}

DbNames == {"decoded"}
UserNames == {"thachbui", "foo"}

\* Values a caller passes for env: omitted (None), a label, the empty string.
EnvArgs == {PyNone, PyStr("dev"), PyStr("")}

\* Binding of the positional arguments of
\*   __init__(self, db_name, user_name, env=None, auto_commit=True).
BindArgs(posargs) ==
    [db_name     |-> posargs[1],
     user_name   |-> posargs[2],
     env         |-> IF Len(posargs) >= 3 THEN posargs[3] ELSE PyNone,
     auto_commit |-> IF Len(posargs) >= 4 THEN posargs[4] ELSE PyBool(TRUE)]

\* "service={db_name}:{environment} user={user_name}".format(...)
ConnectionAlias(db_name, environment, user_name) ==
    "service=" \o db_name \o ":" \o PyFormat(environment)
        \o " user=" \o user_name

\* ResolveEnvironment falling back to a default label when ENV is unset.
ResolveEnvironment_Defaulting(env, env_vars) ==
    IF env = PyNone
    THEN [raised |-> NoError,
          db_environment |-> IF "ENV" \in DOMAIN env_vars
                             THEN PyStr(env_vars["ENV"]) ELSE PyStr("dev"),
          environ_read |-> TRUE]
    ELSE [raised |-> NoError, db_environment |-> env, environ_read |-> FALSE]

\* db_environment as resolved by lines 28-34: the outcome is either the
\* label or MissingEnvironmentError; environ_read tells whether os.environ
\* was looked up.
ResolveEnvironment(env, env_vars) ==
    IF env = PyNone
    THEN IF "ENV" \in DOMAIN env_vars
         THEN [raised |-> NoError, db_environment |-> PyStr(env_vars["ENV"]),
               environ_read |-> TRUE]
         ELSE [raised |-> "MissingEnvironmentError", db_environment |-> PyNone,
               environ_read |-> TRUE]
    ELSE [raised |-> NoError, db_environment |-> env, environ_read |-> FALSE]

\* PostgresDbConnector.__init__: the constructed object, or the exception.
PostgresDbConnector(posargs, env_vars) ==
    LET a == BindArgs(posargs)
        r == ResolveEnvironment(a.env, env_vars)
    IN  IF r.raised # NoError
        THEN [raised |-> r.raised, self |-> PyNone,
              environ_read |-> r.environ_read]
        ELSE [raised |-> NoError,
              self |-> [db_environment   |-> r.db_environment,
                        connection_alias |->
                            ConnectionAlias(a.db_name, r.db_environment,
                                            a.user_name),
                        auto_commit      |-> a.auto_commit],
              environ_read |-> r.environ_read]

\* Truth value of a Python value, as the driver's autocommit setter takes it.
Truthy(v) ==
    IF v.kind = "bool" THEN v.b
    ELSE IF v.kind = "str" THEN v.s # ""
    ELSE FALSE

Psycopg2Connection == "<class 'psycopg2.extensions.connection'>"

\* PostgresDbConnector.connect: driver_connection is what psycopg2.connect
\* returned, with the driver's default autocommit.
connect(self, driver_connection) ==
    [driver_connection EXCEPT !.autocommit = Truthy(self.auto_commit)]

-----------------------------------------------------------------------------
(* database/sql_executer.py: constants and construction                    *)

FETCH_ONE == "fetchone"
FETCH_ALL == "fetchall"
MODIFY == "modify"

DJANGO_DATABASE_WRAPPER ==
    "django.db.backends.postgresql_psycopg2.base.DatabaseWrapper"
DJANGO_DEFAULT_CONNECTION_PROXY == "django.db.DefaultConnectionProxy"

\* str(type(connection)) of the connections a caller may hand over.
ConnectionTypes ==
    {Psycopg2Connection,
     "<class 'django.db.backends.postgresql_psycopg2.base.DatabaseWrapper'>",
     "<class 'django.db.DefaultConnectionProxy'>"}

\* SqlExecuter.__init__
SqlExecuter(connection) ==
    [is_django_connection |->
        \/ Contains(DJANGO_DATABASE_WRAPPER, connection.type)
        \/ Contains(DJANGO_DEFAULT_CONNECTION_PROXY, connection.type)]

-----------------------------------------------------------------------------
(* The driver's answers to a statement.                                    *)

\* cursor.description of the statements considered: two columns.
Description == <<[name |-> "id"], [name |-> "label"]>>

\* Row i of a result set, as the driver returns it.
Row(i) == PyTuple(<<i, 10 * i>>)

\* The result set of n rows, in the order the server produces them.
ResultSet(n) == [i \in 1..n |-> Row(i)]

\* Exceptions the driver raises from mogrify, execute or a fetch.
DriverErrors == {"ProgrammingError", "OperationalError"}

\* What the driver does with one statement: where it raises (or "none"),
\* which exception, and the rows the statement produces.
DriverAnswers(maxRows, failPoints) ==
    {[fail |-> f, error |-> e, rows |-> ResultSet(n)] :
        f \in {"none"}, e \in {NoError}, n \in 0..maxRows}
    \cup
    {[fail |-> f, error |-> e, rows |-> ResultSet(n)] :
        f \in failPoints, e \in DriverErrors, n \in {maxRows}}

-----------------------------------------------------------------------------
(* SqlExecuter._execute and convert_result_to_namedtuple                   *)

\* namedtuple('Result', names)(*row)
NamedTupleResult(names, row) ==
    [kind |-> "Result", fields |-> names, items |-> row.items]

\* convert_result_to_namedtuple without the isinstance(query_data, list)
\* branch: every result is converted as if it were one row.
convert_result_to_namedtuple_NoListBranch(cursor_description, query_data) ==
    LET names == [i \in 1..Len(cursor_description) |->
                      cursor_description[i].name]
    IN  IF query_data = PyNone THEN PyNone
        ELSE NamedTupleResult(names, query_data)

\* convert_result_to_namedtuple(cursor_description, query_data)
convert_result_to_namedtuple(cursor_description, query_data) ==
    LET names == [i \in 1..Len(cursor_description) |->
                      cursor_description[i].name]
    IN  IF query_data = PyNone
        THEN PyNone
        ELSE IF query_data.kind = "list"
        THEN PyList([i \in 1..Len(query_data.items) |->
                         NamedTupleResult(names, query_data.items[i])])
        ELSE NamedTupleResult(names, query_data)

\* cursor.fetchone(): the next row, or None when there is none.
FetchOne(rows) == IF rows = <<>> THEN PyNone ELSE rows[1]

\* cursor.fetchall(): the list of all remaining rows.
FetchAll(rows) == PyList(rows)

\* The fetch of lines 84-89.
FetchByType(execution_type, rows) ==
    IF execution_type = FETCH_ONE THEN FetchOne(rows)
    ELSE IF execution_type = FETCH_ALL THEN FetchAll(rows)
    ELSE PyNone

\* Lines 96-97: rows are reshaped only on a django connection.
ShapeQueryData(self, cursor_description, query_data) ==
    IF self.is_django_connection /\ query_data # PyNone
    THEN convert_result_to_namedtuple(cursor_description, query_data)
    ELSE query_data

\* Lines 99-103.
ExecutionResults(query_data, cursor_description, row_count) ==
    [kind |-> "ExecutionResults", query_data |-> query_data,
     cursor_description |-> cursor_description, row_count |-> row_count]

\* CursorExit without the with statement: the cursor is closed only when
\* the body ends normally.
CursorExit_OnSuccessOnly(cursor, exc) ==
    IF exc = NoError THEN [cursor EXCEPT !.closes = @ + 1] ELSE cursor

\* The cursor of "with self.db_connection.cursor() as cursor" once the
\* block is left, normally (exc = NoError) or by exception exc: the context
\* manager closes it either way.
CursorExit(cursor, exc) ==
    [cursor EXCEPT !.closes = @ + 1]

\* Whether the body of _execute has raised by the time it reaches `point`.
RaisedBy(driver, execution_type, point) ==
    LET order == <<"mogrify", "execute", "fetch">>
        at(p) == CHOOSE i \in 1..3 : order[i] = p
    IN  /\ driver.fail # "none"
        /\ at(driver.fail) <= at(point)
        /\ (driver.fail = "fetch" => execution_type # MODIFY)

\* SqlExecuter._execute(sql, args, execution_type) on a cursor whose
\* driver answers as `driver`: what is returned or raised, and what was
\* done to the cursor and the connection.
_execute(self, connection, execution_type, driver) ==
    LET opened     == [opens |-> 1, closes |-> 0, executes |-> 0]
        failed     == RaisedBy(driver, execution_type, "fetch")
        executed   == [opened EXCEPT !.executes =
                          IF RaisedBy(driver, execution_type, "mogrify")
                          THEN 0 ELSE 1]
        fetched    == FetchByType(execution_type, driver.rows)
        query_data == ShapeQueryData(self, Description, fetched)
        results    == ExecutionResults(
                          query_data,
                          IF execution_type = MODIFY THEN PyList(Description)
                                                     ELSE PyNone,
                          Len(driver.rows))
        exc        == IF failed THEN driver.error ELSE NoError
    IN  [op         |-> execution_type,
         rows       |-> driver.rows,
         raised     |-> exc,
         results    |-> IF failed THEN PyNone ELSE results,
         cursor     |-> CursorExit(executed, exc),
         connection |-> connection]

\* The record kept of an _execute call, with the driver's answer to it;
\* before any call, the empty record.
NoExecute ==
    [op |-> "none", rows |-> <<>>, raised |-> NoError, results |-> PyNone,
     cursor |-> [opens |-> 0, closes |-> 0, executes |-> 0],
     driver |-> [fail |-> "none", error |-> NoError]]

-----------------------------------------------------------------------------
(* SqlExecuter.fetch_all_server_side: the generator                        *)

\* The generator object: where its frame stands and its local variables.
\*   pc: "none" (no generator), "created" (not yet advanced), "suspended"
\*   (at the yield of line 157), "done" (returned), "failed" (left by an
\*   exception), "closed" (closed by the caller or the collector).
NoGenerator ==
    [pc |-> "none", auto_commit_was_on |-> PyNone, result_set |-> <<>>,
     idx |-> 0]

\* What the generator's body has done: the connection's transactional
\* scope, the named cursor, the server-side result set and how far it has
\* been fetched, the batches fetchmany returned and the rows yielded.
\* at_call and at_first record the connection's autocommit flag when
\* fetch_all_server_side was called and when the generator was first
\* advanced; other_ops and later_ops record whether the caller has operated
\* on the connection between the call and the first advance, and after the
\* generator ended.
NoStream ==
    [scope_enters |-> 0, commits |-> 0, rollbacks |-> 0,
     cursor_opens |-> 0, cursor_closes |-> 0, arraysize |-> 0,
     executes |-> 0, rows |-> <<>>, fetched |-> 0, batches |-> <<>>,
     yielded |-> <<>>, at_call |-> FALSE, at_first |-> FALSE,
     other_ops |-> FALSE, later_ops |-> FALSE]

Min(a, b) == IF a <= b THEN a ELSE b

\* cursor.fetchmany() of a named cursor: the next arraysize rows, fewer at
\* the end of the result set, none after it.
FetchMany(rows, fetched, arraysize) ==
    SubSeq(rows, fetched + 1, Min(fetched + arraysize, Len(rows)))

\* LoopExhausted taking a batch shorter than arraysize for the end.
LoopExhausted_ShortBatch(result_set) == Len(result_set) < ArraySize

\* Line 154: "if not result_set".
LoopExhausted(result_set) == result_set = <<>>

\* ExitScopes without the with statements: the cleanup runs only when the
\* block ends normally.
ExitScopes_OnSuccessOnly(s, exc) ==
    IF exc = NoError
    THEN [s EXCEPT !.cursor_closes = @ + 1, !.commits = @ + 1]
    ELSE s

\* Leaving "with cxn.cursor(name=...)" and then "with self.db_connection":
\* the cursor is closed, and the connection commits when the block ended
\* normally and rolls back when an exception exc left it.
ExitScopes(s, exc) ==
    [s EXCEPT !.cursor_closes = @ + 1,
              !.commits = IF exc = NoError THEN @ + 1 ELSE @,
              !.rollbacks = IF exc # NoError THEN @ + 1 ELSE @]

\* RestoreAutoCommit without lines 159-160: the flag is left as set.
RestoreAutoCommit_Never(connection, auto_commit_was_on) == connection

\* Lines 159-160.
RestoreAutoCommit(connection, auto_commit_was_on) ==
    IF Truthy(auto_commit_was_on)
    THEN [connection EXCEPT !.autocommit = TRUE]
    ELSE connection

\* An exception exc raised inside the with blocks (or thrown in at the
\* yield) leaves the generator: the scopes are exited, lines 159-160 are
\* not reached.
Unwind(g, s, connection, exc, pc, seen) ==
    [gen        |-> [g EXCEPT !.pc = pc, !.result_set = <<>>, !.idx = 0],
     stream     |-> ExitScopes(s, exc),
     connection |-> connection,
     raised     |-> seen]

\* The loop falls through at "break": both scopes exit normally, the flag
\* is restored and the generator returns (StopIteration at the caller).
Finish(g, s, connection) ==
    [gen        |-> [g EXCEPT !.pc = "done", !.result_set = <<>>, !.idx = 0],
     stream     |-> ExitScopes(s, NoError),
     connection |-> RestoreAutoCommit(connection, g.auto_commit_was_on),
     raised     |-> "StopIteration"]

\* Line 157: the generator suspends handing `row` to the caller.
Yield(g, s, connection, result_set, idx) ==
    [gen        |-> [g EXCEPT !.pc = "suspended", !.result_set = result_set,
                              !.idx = idx],
     stream     |-> [s EXCEPT !.yielded = Append(@, result_set[idx])],
     connection |-> connection,
     raised     |-> NoError]

\* Lines 152-157 from the top of "while True".
FetchLoop(g, s, connection, fail, error) ==
    IF fail = "fetchmany"
    THEN Unwind(g, s, connection, error, "failed", error)
    ELSE LET result_set == FetchMany(s.rows, s.fetched, s.arraysize)
             s1 == [s EXCEPT !.fetched = @ + Len(result_set),
                             !.batches = Append(@, Len(result_set))]
         IN  IF LoopExhausted(result_set)
             THEN Finish(g, s1, connection)
             ELSE Yield(g, s1, connection, result_set, 1)

\* The first next(): lines 145-151, then the loop.
Start(g, s, connection, driver) ==
    LET g1 == [g EXCEPT !.auto_commit_was_on = PyBool(connection.autocommit)]
        c1 == [connection EXCEPT !.autocommit = FALSE]
        s1 == [s EXCEPT !.scope_enters = @ + 1, !.cursor_opens = @ + 1,
                        !.arraysize = ArraySize]
        s2 == [s1 EXCEPT !.executes = @ + 1]
        s3 == [s2 EXCEPT !.rows = driver.rows]
    IN  IF driver.fail = "mogrify"
        THEN Unwind(g1, s1, c1, driver.error, "failed", driver.error)
        ELSE IF driver.fail = "execute"
        THEN Unwind(g1, s2, c1, driver.error, "failed", driver.error)
        ELSE FetchLoop(g1, s3, c1, driver.fail, driver.error)

\* A later next(): the for loop of line 156 goes on, or the while loop
\* fetches the next batch.
Resume(g, s, connection, fail, error) ==
    IF g.idx < Len(g.result_set)
    THEN Yield(g, s, connection, g.result_set, g.idx + 1)
    ELSE FetchLoop(g, s, connection, fail, error)

-----------------------------------------------------------------------------
(* The state machine: a caller building a connector, connecting, binding   *)
(* an executer to the connection and then issuing operations.              *)

\* No constructor call made yet.
NoCall ==
    [made |-> FALSE, env |-> PyNone, requested_auto_commit |-> TRUE,
     environ_read |-> FALSE, raised |-> NoError, connect_returned |-> PyNone]

\* The connections an executer is bound to: one returned by connect(),
\* whose flag is the connector's auto_commit, or a django connection.
Connections ==
    {[type |-> t, autocommit |-> a, closed |-> FALSE] :
        t \in ConnectionTypes, a \in BOOLEAN}

\* A process about to build a connector and connect.
ConnectorInit ==
    /\ environ \in Environs
    /\ connector = PyNone
    /\ call = NoCall
    /\ db_connection = PyNone
    /\ sql_executer = PyNone
    /\ raised = NoError
    /\ last = NoExecute
    /\ gen = NoGenerator
    /\ stream = NoStream

\* A caller that holds an open connection and has bound an executer to it.
Init ==
    /\ environ = [k \in {"ENV"} |-> "dev"]
    /\ connector = PyNone
    /\ call = NoCall
    /\ db_connection \in Connections
    /\ sql_executer = SqlExecuter(db_connection)
    /\ raised = NoError
    /\ last = NoExecute
    /\ gen = NoGenerator
    /\ stream = NoStream

\* The constructor call with positional arguments posargs, by a caller who
\* means auto-commit to be `requested`.
CallConstructor(posargs, requested) ==
    LET r == PostgresDbConnector(posargs, environ)
    IN  /\ connector' = r.self
        /\ call' = [made |-> TRUE, env |-> BindArgs(posargs).env,
                    requested_auto_commit |-> requested,
                    environ_read |-> r.environ_read, raised |-> r.raised,
                    connect_returned |-> PyNone]
        /\ raised' = r.raised
        /\ UNCHANGED <<environ, db_connection, sql_executer, last, gen, stream>>

\* PostgresDbConnector(db_name, user_name, env, auto_commit), all four
\* arguments given, as connect_to_db gives them.
Construct(db_name, user_name, env, auto_commit) ==
    CallConstructor(<<db_name, user_name, env, PyBool(auto_commit)>>,
                    auto_commit)

\* The constructor calls of test_connect_auto_commit,
\*   PostgresDbConnector(TB_DB, DB_USER),
\* and of test_connect_no_auto_commit,
\*   PostgresDbConnector(TB_DB, DB_USER, False).
ConstructAsTest(db_name, user_name, auto_commit) ==
    CallConstructor(IF auto_commit
                    THEN <<db_name, user_name>>
                    ELSE <<db_name, user_name, PyBool(FALSE)>>,
                    auto_commit)

\* db_connector.connect(): the driver connects (its new connection has
\* the driver's default autocommit) or raises OperationalError.
CallConnect(driver_default, ok) ==
    /\ connector # PyNone
    /\ IF ok
       THEN LET c == connect(connector,
                             [type |-> Psycopg2Connection,
                              autocommit |-> driver_default,
                              closed |-> FALSE])
            IN  /\ db_connection' = c
                /\ call' = [call EXCEPT !.connect_returned =
                                            PyBool(c.autocommit)]
                /\ raised' = NoError
       ELSE /\ raised' = "OperationalError"
            /\ UNCHANGED <<db_connection, call>>
    /\ UNCHANGED <<environ, connector, sql_executer, last, gen, stream>>

\* The caller has operated on the connection while a generator exists.
NoteOtherOperation ==
    stream' = IF gen.pc = "created"
              THEN [stream EXCEPT !.other_ops = TRUE]
              ELSE IF gen.pc \in {"done", "failed", "closed"}
              THEN [stream EXCEPT !.later_ops = TRUE]
              ELSE stream

\* One call of fetch_one_row, fetch_all_rows or modify_rows.  Not issued
\* while a streaming sequence is suspended in its transaction.
CallExecute(execution_type, driver) ==
    LET r == _execute(sql_executer, db_connection, execution_type, driver)
    IN  /\ sql_executer # PyNone
        /\ gen.pc # "suspended"
        /\ last' = [op |-> r.op, rows |-> r.rows, raised |-> r.raised,
                    results |-> r.results, cursor |-> r.cursor,
                    driver |-> [fail |-> driver.fail, error |-> driver.error]]
        /\ db_connection' = r.connection
        /\ raised' = r.raised
        /\ NoteOtherOperation
        /\ UNCHANGED <<environ, connector, call, sql_executer, gen>>

fetch_one_row(driver) == CallExecute(FETCH_ONE, driver)

fetch_all_rows(driver) == CallExecute(FETCH_ALL, driver)

modify_rows(driver) == CallExecute(MODIFY, driver)

\* The caller sets connection.autocommit itself.
SetAutocommit(value) ==
    /\ sql_executer # PyNone
    /\ gen.pc # "suspended"
    /\ db_connection.autocommit # value
    /\ db_connection' = [db_connection EXCEPT !.autocommit = value]
    /\ NoteOtherOperation
    /\ UNCHANGED <<environ, connector, call, sql_executer, raised, last, gen>>

\* fetch_all_server_side as an ordinary function whose lines 145-146 run
\* at the call.
fetch_all_server_side_Eager ==
    /\ sql_executer # PyNone
    /\ gen.pc \notin {"created", "suspended"}
    /\ gen' = [NoGenerator EXCEPT
                  !.pc = "created",
                  !.auto_commit_was_on = PyBool(db_connection.autocommit)]
    /\ stream' = [NoStream EXCEPT !.at_call = db_connection.autocommit]
    /\ db_connection' = [db_connection EXCEPT !.autocommit = FALSE]
    /\ UNCHANGED <<environ, connector, call, sql_executer, raised, last>>

\* fetch_all_server_side(cursor_name, sql, args): calling a generator
\* function runs none of its body and returns the generator object.
fetch_all_server_side ==
    /\ sql_executer # PyNone
    /\ gen.pc \notin {"created", "suspended"}
    /\ gen' = [NoGenerator EXCEPT !.pc = "created"]
    /\ stream' = [NoStream EXCEPT !.at_call = db_connection.autocommit]
    /\ UNCHANGED <<environ, connector, call, db_connection, sql_executer,
                   raised, last>>

\* The generator has run to its next yield, its return or its exception.
GeneratorRan(r) ==
    /\ gen' = r.gen
    /\ stream' = r.stream
    /\ db_connection' = r.connection
    /\ raised' = r.raised
    /\ UNCHANGED <<environ, connector, call, sql_executer, last>>

\* next() on a generator not yet started.
NextFirst(driver) ==
    /\ gen.pc = "created"
    /\ GeneratorRan(Start(gen,
                          [stream EXCEPT !.at_first = db_connection.autocommit],
                          db_connection, driver))

\* next() on a generator suspended at the yield.
NextAgain(fail, error) ==
    /\ gen.pc = "suspended"
    /\ (fail = "none") = (error = NoError)
    /\ GeneratorRan(Resume(gen, stream, db_connection, fail, error))

\* next() on a finished generator: StopIteration, none of the body runs.
NextFinished ==
    /\ gen.pc \in {"done", "failed", "closed"}
    /\ raised' = "StopIteration"
    /\ UNCHANGED <<environ, connector, call, db_connection, sql_executer, last,
                   gen, stream>>

\* close() on the generator, by the caller or when the abandoned object
\* is collected: a generator not yet started just ends; one suspended at
\* the yield has GeneratorExit thrown in there, and close() absorbs it.
Close ==
    /\ gen.pc \in {"created", "suspended"}
    /\ IF gen.pc = "created"
       THEN GeneratorRan([gen |-> [gen EXCEPT !.pc = "closed"],
                          stream |-> stream, connection |-> db_connection,
                          raised |-> NoError])
       ELSE GeneratorRan(Unwind(gen, stream, db_connection, "GeneratorExit",
                                "closed", NoError))

ConnectorNext ==
    \/ \E d \in DbNames, u \in UserNames, e \in EnvArgs, a \in BOOLEAN :
           Construct(d, u, e, a)
    \/ \E d \in DbNames, u \in UserNames, a \in BOOLEAN :
           ConstructAsTest(d, u, a)
    \/ \E dflt \in BOOLEAN, ok \in BOOLEAN : CallConnect(dflt, ok)

ConnectorSpec == ConnectorInit /\ [][ConnectorNext]_vars

\* The non-streaming operations, on every answer of the driver.
ExecuteNext ==
    \E d \in DriverAnswers(MaxFetchRows, {"mogrify", "execute", "fetch"}) :
        \/ fetch_one_row(d)
        \/ fetch_all_rows(d)
        \/ modify_rows(d)

ExecuteSpec == Init /\ [][ExecuteNext]_vars

\* The queries a caller issues on the connection before and after a
\* streaming fetch: one that returns a row and one that the driver rejects.
UnrelatedQueries ==
    {[fail |-> "none", error |-> NoError, rows |-> ResultSet(1)],
     [fail |-> "execute", error |-> "ProgrammingError", rows |-> ResultSet(1)]}

\* The streaming fetch, with the caller's other uses of the connection.
Next ==
    \/ \E d \in UnrelatedQueries : fetch_one_row(d)
    \/ \E v \in BOOLEAN : SetAutocommit(v)
    \/ fetch_all_server_side
    \/ \E d \in DriverAnswers(MaxRows, {"mogrify", "execute", "fetchmany"}) :
           NextFirst(d)
    \/ \E f \in {"none", "fetchmany"}, e \in DriverErrors \cup {NoError} :
           NextAgain(f, e)
    \/ NextFinished
    \/ Close

Spec == Init /\ [][Next]_vars

-----------------------------------------------------------------------------
(* Claims.                                                                 *)

\* The generator has ended, in whichever way.
Terminated == gen.pc \in {"done", "failed", "closed"}

\* The generator's body has run: it was advanced at least once.
Started == stream.scope_enters > 0

\* C1: once a sequence of fetch_all_server_side has been consumed to
\* exhaustion, no other operation having been issued on the connection
\* since the call, the connection's auto-commit flag equals its value
\* before the call, on or off.
C1_AutoCommitRestoredAfterExhaustion ==
    (gen.pc = "done" /\ ~stream.other_ops /\ ~stream.later_ops)
        => db_connection.autocommit = stream.at_call

\* A stream over several rows, started with auto-commit on, has been
\* consumed to exhaustion and the flag is on again.
C1_Witness ==
    /\ gen.pc = "done"
    /\ ~stream.other_ops /\ ~stream.later_ops
    /\ stream.at_call
    /\ Len(stream.yielded) > 1
    /\ db_connection.autocommit

\* C2: when a started sequence ends other than by exhaustion (closed by
\* the caller after at least one row, or an error of execute or
\* fetchmany), the auto-commit flag is restored to the value it had before
\* the streaming operation started.
C2_AutoCommitRestoredAfterAbandonOrError ==
    (gen.pc \in {"closed", "failed"} /\ Started /\ ~stream.later_ops)
        => db_connection.autocommit = stream.at_first

\* C3: for every started sequence, however it ends, the named cursor is
\* closed exactly once and the transactional scope is exited exactly once
\* (committed on exhaustion, rolled back otherwise), neither before the
\* sequence ends, and a further query can then run on the connection.
C3_CursorAndScopeReleasedOnce ==
    /\ Started =>
          /\ stream.scope_enters = 1
          /\ stream.cursor_opens = 1
    /\ gen.pc = "suspended" =>
          /\ stream.cursor_closes = 0
          /\ stream.commits + stream.rollbacks = 0
    /\ (Terminated /\ Started) =>
          /\ stream.cursor_closes = 1
          /\ stream.commits + stream.rollbacks = 1
          /\ stream.commits = (IF gen.pc = "done" THEN 1 ELSE 0)
          /\ ENABLED (\E d \in UnrelatedQueries : fetch_one_row(d))

\* A sequence abandoned after its first row: cursor closed, transaction
\* rolled back, and a later query on the connection has returned its row.
C3_Witness ==
    /\ gen.pc = "closed"
    /\ Len(stream.yielded) = 1
    /\ stream.cursor_closes = 1
    /\ stream.rollbacks = 1
    /\ stream.later_ops
    /\ last.op = FETCH_ONE
    /\ last.raised = NoError

\* The batch lengths of a result set of n rows fetched arraysize at a
\* time: full batches, the short one if any, then the empty one.
RECURSIVE ExpectedBatches(_, _)
ExpectedBatches(n, arraysize) ==
    IF n = 0 THEN <<0>>
    ELSE <<Min(n, arraysize)>>
             \o ExpectedBatches(n - Min(n, arraysize), arraysize)

\* C4: a fully consumed sequence over N rows has yielded exactly the N
\* rows, each once and in the driver's order, and has called fetchmany
\* until the first empty batch and not again; while it is being consumed
\* the rows yielded are a prefix of the result set.
C4_YieldsAllRowsInOrder ==
    /\ gen.pc = "suspended" =>
          /\ stream.yielded = SubSeq(stream.rows, 1, Len(stream.yielded))
          /\ \A i \in 1..Len(stream.batches) : stream.batches[i] > 0
    /\ gen.pc = "done" =>
          /\ stream.yielded = stream.rows
          /\ stream.batches = ExpectedBatches(Len(stream.rows), ArraySize)

\* A result set that is not a multiple of the batch size has been consumed
\* in full over a full batch, a short batch and the empty batch.
C4_Witness ==
    /\ gen.pc = "done"
    /\ Len(stream.batches) >= 3
    /\ stream.batches[Len(stream.batches) - 1] < ArraySize
    /\ stream.yielded = stream.rows

\* query_data holds `row` in the shape of the executer's mode.
RowShaped(value, row, legacy) ==
    /\ value.kind = (IF legacy THEN "Result" ELSE "tuple")
    /\ value.items = row.items
    /\ legacy => value.fields = <<"id", "label">>

\* C5: after a successful fetch_one_row, fetch_all_rows or modify_rows, in
\* legacy and in non-legacy mode, query_data is: for fetch_one_row the
\* first row, or None when there is no row; for fetch_all_rows a list with
\* one element per row, empty when there is no row; for modify_rows None.
C5_QueryDataShape ==
    (last.op # "none" /\ last.raised = NoError) =>
        LET qd == last.results.query_data
            legacy == sql_executer.is_django_connection
        IN  /\ last.op = FETCH_ONE =>
                  IF last.rows = <<>> THEN qd = PyNone
                  ELSE RowShaped(qd, last.rows[1], legacy)
            /\ last.op = FETCH_ALL =>
                  /\ qd.kind = "list"
                  /\ Len(qd.items) = Len(last.rows)
                  /\ \A i \in 1..Len(last.rows) :
                         RowShaped(qd.items[i], last.rows[i], legacy)
            /\ last.op = MODIFY => qd = PyNone

\* fetch_all_rows in legacy mode has returned the rows of a query as a
\* list of named records.
C5_Witness ==
    /\ sql_executer.is_django_connection
    /\ last.op = FETCH_ALL
    /\ last.raised = NoError
    /\ Len(last.rows) = 2
    /\ last.results.query_data.kind = "list"
    /\ last.results.query_data.items[2].kind = "Result"

\* C6: after connect() returns, the connection's auto-commit flag is the
\* one the caller constructed the connector with, also for the constructor
\* calls the tests make.
C6_ConnectHonoursRequestedAutoCommit ==
    call.connect_returned # PyNone
        => call.connect_returned = PyBool(call.requested_auto_commit)

\* C7: a constructor call with env omitted while ENV is unset raises
\* MissingEnvironmentError and produces no connector; with env supplied,
\* os.environ is not read and the connector is built with that label.
C7_MissingEnvironment ==
    call.made =>
        /\ (call.env = PyNone /\ "ENV" \notin DOMAIN environ) =>
              /\ call.raised = "MissingEnvironmentError"
              /\ connector = PyNone
        /\ call.env # PyNone =>
              /\ ~call.environ_read
              /\ call.raised = NoError
              /\ connector # PyNone
              /\ connector.db_environment = call.env

\* The constructor was called without env in a process without ENV and
\* raised MissingEnvironmentError.
C7_Witness ==
    /\ call.made
    /\ call.env = PyNone
    /\ "ENV" \notin DOMAIN environ
    /\ raised = "MissingEnvironmentError"
    /\ connector = PyNone

\* C8: every constructed connector has a non-empty environment label.
C8_EnvironmentLabelNonEmpty ==
    connector # PyNone => PyFormat(connector.db_environment) # ""

\* C9: every _execute call closes the cursor it opened and leaves the
\* connection open; when the driver raises in execute or in the fetch, the
\* driver's exception reaches the caller as raised, the statement has been
\* executed once and no ExecutionResults is returned; otherwise the
\* statement has been executed once and an ExecutionResults is returned.
C9_CursorClosedOnEveryPath ==
    last.op # "none" =>
        LET driverRaises ==
                \/ last.driver.fail = "execute"
                \/ last.driver.fail = "fetch" /\ last.op # MODIFY
        IN  /\ last.cursor.opens = 1
            /\ last.cursor.closes = 1
            /\ ~db_connection.closed
            /\ driverRaises =>
                  /\ last.raised = last.driver.error
                  /\ raised = last.driver.error
                  /\ last.cursor.executes = 1
                  /\ last.results = PyNone
            /\ last.driver.fail = "none" =>
                  /\ last.raised = NoError
                  /\ last.cursor.executes = 1
                  /\ last.results # PyNone

\* The fetch of fetch_all_rows raised OperationalError: the caller saw it
\* and the cursor is closed.
C9_Witness ==
    /\ last.op = FETCH_ALL
    /\ last.driver.fail = "fetch"
    /\ raised = "OperationalError"
    /\ last.cursor.closes = 1
    /\ last.results = PyNone

\* C10: a generator that has not been advanced has done nothing: no scope
\* entered, no cursor opened, no statement executed, and the flag is as at
\* the call unless the caller changed it; one closed without ever being
\* advanced leaves it so; and the value restored on exhaustion is the one
\* the flag had at the first advance.
C10_NothingRunsBeforeFirstAdvance ==
    /\ (gen.pc = "created" \/ (gen.pc = "closed" /\ ~Started)) =>
          /\ stream.scope_enters = 0
          /\ stream.cursor_opens = 0
          /\ stream.executes = 0
          /\ stream.batches = <<>>
          /\ gen.auto_commit_was_on = PyNone
          /\ (~stream.other_ops /\ ~stream.later_ops) =>
                db_connection.autocommit = stream.at_call
    /\ (gen.pc = "done" /\ ~stream.later_ops) =>
          /\ gen.auto_commit_was_on = PyBool(stream.at_first)
          /\ db_connection.autocommit = stream.at_first

\* The caller turned auto-commit on between the call and the first
\* advance; after exhaustion the flag is on, not off as at the call.
C10_Witness ==
    /\ gen.pc = "done"
    /\ stream.other_ops /\ ~stream.later_ops
    /\ ~stream.at_call
    /\ stream.at_first
    /\ db_connection.autocommit

====
